---- MODULE Spec2Model ----
(***************************************************************************)
(* A model of music_organizer (src/src/main.rs): the indexer, the artist   *)
(* conflict check, the confirmation prompt, the writing loop and the       *)
(* helpers valid_os_string, is_music_extension and mv_or_cp.               *)
(*                                                                         *)
(* Text is a sequence of one-character strings; a path is a record         *)
(* [root, segs]: the spelling of a root directory and the components       *)
(* below it.  PathBuf equality is equality of these records.               *)
(***************************************************************************)
EXTENDS Integers, Sequences, FiniteSets, TLC

VARIABLES
    files,          \* the filesystem's regular files: a set of [path, id]
    dirs,           \* the filesystem's directories: a set of canonical paths
    music_dir,      \* --music-dir as the operator spelled it
    output_arg,     \* --output-dir as the operator spelled it, or None
    copy,           \* --copy
    yes,            \* --assume-yes
    pc,             \* where main is
    output_dir,     \* main's output_dir
    abs_music_dir,  \* main's abs_music_dir
    songs,          \* main's songs
    artists,        \* main's artists
    unknown,        \* main's unknown
    walked,         \* the files the directory walk has already yielded
    loop,           \* the positions of the conflict check and writing loops
    input,          \* the line buffer of the prompt loop that is running
    new_name,       \* the name entered in the conflict check
    counter,        \* main's counter
    run,            \* which run of the program this is: the first or the second
    log,            \* what the run did: one record per transfer attempt
    last,           \* the operator's last accepted choice and the step it led to
    probe           \* the argument and result of a helper applied on its own

vars == <<files, dirs, music_dir, output_arg, copy, yes, pc, output_dir,
          abs_music_dir, songs, artists, unknown, walked, loop, input,
          new_name, counter, run, log, last, probe>>

mainVars == <<files, dirs, music_dir, output_arg, copy, yes, pc, output_dir,
              abs_music_dir, songs, artists, unknown, walked, loop, input,
              new_name, counter, run, log, last>>

None == "None"

-----------------------------------------------------------------------------
(* Bounds                                                                  *)

MaxStrLen == 3      \* the longest text given to valid_os_string on its own
MaxFiles == 2       \* the most files in the music directory
MaxLines == 2       \* the most lines the operator types at one prompt

-----------------------------------------------------------------------------
(* Text                                                                    *)

UpperAlpha == <<"A","B","C","D","E","F","G","H","I","J","K","L","M",
                "N","O","P","Q","R","S","T","U","V","W","X","Y","Z">>

LowerAlpha == <<"a","b","c","d","e","f","g","h","i","j","k","l","m",
                "n","o","p","q","r","s","t","u","v","w","x","y","z">>

\* u8::to_ascii_lowercase
LowerChar(c) ==
    IF \E k \in 1..Len(UpperAlpha) : UpperAlpha[k] = c
    THEN LowerAlpha[CHOOSE k \in 1..Len(UpperAlpha) : UpperAlpha[k] = c]
    ELSE c

\* str::to_ascii_lowercase
to_ascii_lowercase(s) == [k \in 1..Len(s) |-> LowerChar(s[k])]

\* str::eq_ignore_ascii_case
eq_ignore_ascii_case(s, t) == to_ascii_lowercase(s) = to_ascii_lowercase(t)

starts_with(s, c) == Len(s) > 0 /\ s[1] = c

ends_with(s, c) == Len(s) > 0 /\ s[Len(s)] = c

\* The characters the class of RE matches.  In the pattern [<>:"/\|?*] the
\* two characters \| are an escaped |, so the class holds eight characters
\* and the backslash is not one of them.
RE_CLASS == {"<", ">", ":", "\"", "/", "|", "?", "*"}

\* RE.replace_all(str, "")
RECURSIVE replace_all(_)
replace_all(s) ==
    IF s = <<>> THEN <<>>
    ELSE IF Head(s) \in RE_CLASS THEN replace_all(Tail(s))
         ELSE <<Head(s)>> \o replace_all(Tail(s))

\* valid_os_string
valid_os_string(str) ==
    LET s0 == replace_all(str)
        s1 == IF starts_with(s0, ".") THEN <<"_">> \o Tail(s0) ELSE s0
        s2 == IF ends_with(s1, ".") THEN SubSeq(s1, 1, Len(s1) - 1) \o <<"_">> ELSE s1
    IN  s2

-----------------------------------------------------------------------------
(* Paths                                                                   *)

\* Option<T>: <<>> is None, <<v>> is Some(v)
NoneV == <<>>

Some(v) == <<v>>

\* The roots: LibRoot is the canonical spelling of the music directory,
\* LibRel another spelling of the same directory (a relative path), and
\* OutRoot a different directory.
LibRoot == "/lib"

LibRel == "lib"

OutRoot == "/out"

\* Path::canonicalize, on a root
canonicalize(root) == IF root = LibRel THEN LibRoot ELSE root

Path(root, segs) == [root |-> root, segs |-> segs]

\* the file or directory a path names, whatever its spelling
Canon(p) == Path(canonicalize(p.root), p.segs)

\* Path::join of one component; an empty component adds nothing that
\* PathBuf equality sees
join(p, seg) == IF seg = <<>> THEN p ELSE Path(p.root, Append(p.segs, seg))

Parent(p) == Path(p.root, SubSeq(p.segs, 1, Len(p.segs) - 1))

\* Path::file_name
file_name(p) == p.segs[Len(p.segs)]

LastDot(s) ==
    IF \E k \in 1..Len(s) : s[k] = "."
    THEN CHOOSE k \in 1..Len(s) : s[k] = "." /\ \A m \in (k+1)..Len(s) : s[m] # "."
    ELSE 0

\* Path::extension: the part of the file name after its last dot; None when
\* the name has no dot, or only a leading one
extension(p) ==
    LET n == file_name(p)
        d == LastDot(n)
    IN  IF d <= 1 THEN NoneV ELSE Some(SubSeq(n, d + 1, Len(n)))

MUSIC_FILE_EXTENSIONS ==
    << <<"m","4","a">>, <<"m","p","3">>, <<"m","4","b">>, <<"m","4","p">>, <<"m","4","v">> >>

\* is_music_extension
is_music_extension(s) ==
    \E k \in 1..Len(MUSIC_FILE_EXTENSIONS) : s = MUSIC_FILE_EXTENSIONS[k]

\* the filter_entry closure of the directory walk: an entry whose name
\* starts with a dot is left out, and so is everything below it
Hidden(p) == \E k \in 1..Len(p.segs) : starts_with(p.segs[k], ".")

-----------------------------------------------------------------------------
(* The files a music directory may hold                                    *)

Tag(track, artist, album_artist, album, title) ==
    [track |-> track, artist |-> artist, album_artist |-> album_artist,
     album |-> album, title |-> title]

\* Metadata::default()
DefaultMetadata == [track |-> 0, artist |-> <<>>, album_artist |-> <<>>,
                    album |-> <<>>, title |-> <<>>]

\* Each entry: where the file is below the music directory, and the tag
\* the tag reader finds in it (None when the tag cannot be read).
FilePool == <<
    [segs |-> << <<"1",".","m","p","3">> >>,
     tag |-> Some(Tag(1, <<"a">>, <<>>, <<"l">>, <<"t">>))],
    [segs |-> << <<"d">>, <<"1",".","m","p","3">> >>,
     tag |-> Some(Tag(1, <<"a">>, <<>>, <<"l">>, <<"t">>))],
    [segs |-> << <<"2",".","m","p","3">> >>,
     tag |-> Some(Tag(65538, <<"a">>, <<"A">>, <<"l">>, <<"u">>))],
    [segs |-> << <<"3",".","m","4","a">> >>,
     tag |-> NoneV],
    [segs |-> << <<"d">>, <<"3",".","m","4","a">> >>,
     tag |-> Some(Tag(0, <<>>, <<>>, <<"l">>, <<"t">>))],
    [segs |-> << <<"n">> >>,
     tag |-> NoneV],
    [segs |-> << <<"c",".","t","x","t">> >>,
     tag |-> NoneV],
    [segs |-> << <<".","h",".","m","p","3">> >>,
     tag |-> Some(Tag(1, <<"a">>, <<>>, <<"l">>, <<"t">>))],
    [segs |-> << <<"4",".","m","p","3">> >>,
     tag |-> Some(Tag(0, <<"a">>, <<>>, <<>>, <<"t">>))]
>>

FileIds == 1..Len(FilePool)

\* the content of a file that was truncated to nothing
EmptyId == 0

TagOf(id) == IF id = EmptyId THEN NoneV ELSE FilePool[id].tag

FileAt(p) == {f \in files : f.path = Canon(p)}

\* Metadata::read_from: the tag's fields, the track number cut to 16 bits;
\* the default Metadata when the tag cannot be read
read_from(p) ==
    LET ext == extension(p)[1]
        tag == TagOf((CHOOSE f \in FileAt(p) : TRUE).id)
    IN  IF is_music_extension(ext) /\ tag # NoneV
        THEN [tag[1] EXCEPT !.track = tag[1].track % 65536]
        ELSE DefaultMetadata

-----------------------------------------------------------------------------
(* The indexer's grouping, main.rs lines 207-251                           *)

Album(name, si) == [name |-> name, songs |-> <<si>>]

Artist(name, album, si) == [name |-> name, albums |-> <<Album(album, si)>>]

FirstIndex(seq, name) ==
    IF \E k \in 1..Len(seq) : seq[k].name = name
    THEN CHOOSE k \in 1..Len(seq) :
            seq[k].name = name /\ \A m \in 1..(k-1) : seq[m].name # name
    ELSE 0

\* a slip: the album is added to the matching artist and the loop is not
\* left, so the song also gets an artist of its own
GroupFallThrough(ars, artist, album, si) ==
    LET a == FirstIndex(ars, artist)
    IN  IF a = 0 THEN Append(ars, Artist(artist, album, si))
        ELSE LET l == FirstIndex(ars[a].albums, album)
             IN  IF l = 0
                 THEN Append([ars EXCEPT ![a].albums = Append(@, Album(album, si))],
                             Artist(artist, album, si))
                 ELSE [ars EXCEPT ![a].albums[l].songs = Append(@, si)]

\* the song goes to the first artist of that exact name, and there to the
\* first album of that exact name; what is missing is appended
Group(ars, artist, album, si) ==
    IF ars = <<>> THEN <<Artist(artist, album, si)>>
    ELSE LET a == FirstIndex(ars, artist)
         IN  IF a = 0 THEN Append(ars, Artist(artist, album, si))
             ELSE LET l == FirstIndex(ars[a].albums, album)
                  IN  IF l = 0
                      THEN [ars EXCEPT ![a].albums = Append(@, Album(album, si))]
                      ELSE [ars EXCEPT ![a].albums[l].songs = Append(@, si)]

-----------------------------------------------------------------------------
(* The destination of a song, main.rs lines 313-372                        *)

Digits == <<"0","1","2","3","4","5","6","7","8","9">>

RECURSIVE Dec(_)
Dec(n) == IF n < 10 THEN <<Digits[n + 1]>> ELSE Dec(n \div 10) \o <<Digits[(n % 10) + 1]>>

\* format!("{:02} - ", track)
TrackPrefix(track) ==
    (IF track < 10 THEN <<"0">> ELSE <<>>) \o Dec(track) \o <<" ","-"," ">>

SingleSuffix == <<" ","-"," ","s","i","n","g","l","e">>

\* a slip: the album name is compared as it is written
SingleReleaseExactCase(al_name, title) ==
    \/ al_name = <<>>
    \/ al_name = to_ascii_lowercase(title) \o SingleSuffix

\* the test of main.rs line 332
SingleRelease(al_name, title) ==
    \/ al_name = <<>>
    \/ to_ascii_lowercase(al_name) = to_ascii_lowercase(title) \o SingleSuffix

\* main.rs lines 313 and 321
ArDir(out, ar_name) == join(out, valid_os_string(ar_name))

AlDir(out, ar_name, al_name) == join(ArDir(out, ar_name), valid_os_string(al_name))

\* main.rs lines 328-357: new_file of a song of an album
AlbumNewFile(out, ar_name, al_name, song) ==
    LET ext == extension(song.current_file)[1]
        tail == valid_os_string(song.artist) \o <<" ","-"," ">>
                    \o valid_os_string(song.title) \o <<".">> \o ext
    IN  IF SingleRelease(al_name, song.title)
        THEN join(ArDir(out, ar_name), tail)
        ELSE join(AlDir(out, ar_name, al_name), TrackPrefix(song.track) \o tail)

UnknownName == <<"u","n","k","n","o","w","n">>

\* main.rs lines 364 and 372: new_file of a song of the unknown bucket
UnknownNewFile(out, song) == join(join(out, UnknownName), file_name(song.current_file))

\* song indices count from 0, sequences from 1
SongAt(si) == songs[si + 1]

\* every (song index, new_file) the writing loop will reach, in the
\* hierarchy as it stands
Plan ==
    UNION {UNION {{[si |-> artists[a].albums[l].songs[k],
                    new |-> AlbumNewFile(output_dir, artists[a].name,
                                         artists[a].albums[l].name,
                                         SongAt(artists[a].albums[l].songs[k]))] :
                        k \in 1..Len(artists[a].albums[l].songs)} :
                    l \in 1..Len(artists[a].albums)} :
            a \in 1..Len(artists)}
    \cup {[si |-> unknown[k], new |-> UnknownNewFile(output_dir, SongAt(unknown[k]))] :
            k \in 1..Len(unknown)}

-----------------------------------------------------------------------------
(* The state a run starts in                                               *)

NoLoop == [at |-> "none", i |-> 0, j |-> 0, k |-> 0]

NoChoice == [at |-> "none", choice |-> 0]

NoProbe == [fn |-> "none"]

\* one entry of log: a directory creation or a call of mv_or_cp
Entry(kind, ok, si, old, new) ==
    [kind |-> kind, ok |-> ok, si |-> si, old |-> old, new |-> new]

\* the directories above the files of a library
LibDirs(lib) ==
    UNION {{Path(LibRoot, SubSeq(FilePool[id].segs, 1, n)) :
                n \in 0..(Len(FilePool[id].segs) - 1)} : id \in lib}

\* what main has when it starts: lines 151-159 and 177-179
FreshRun ==
    /\ pc = "start"
    /\ output_dir = Path(IF output_arg = None THEN music_dir ELSE output_arg, <<>>)
    /\ abs_music_dir = NoneV
    /\ songs = <<>>
    /\ artists = <<>>
    /\ unknown = <<>>
    /\ walked = {}
    /\ loop = NoLoop
    /\ input = <<>>
    /\ new_name = <<>>
    /\ counter = 1
    /\ log = <<>>
    /\ last = NoChoice

Init ==
    /\ \E lib \in SUBSET FileIds, libThere \in BOOLEAN :
        /\ Cardinality(lib) <= MaxFiles
        /\ ~libThere => lib = {}
        /\ files = {[path |-> Path(LibRoot, FilePool[id].segs), id |-> id] : id \in lib}
        /\ dirs = (IF libThere THEN {Path(LibRoot, <<>>)} ELSE {}) \cup LibDirs(lib)
    /\ output_arg \in {None, OutRoot}
    /\ music_dir \in (IF output_arg = None THEN {LibRoot, LibRel} ELSE {LibRoot})
    /\ copy \in BOOLEAN
    /\ copy => output_arg # None        \* --copy requires --output-dir
    /\ yes \in BOOLEAN
    /\ run = 1
    /\ probe = NoProbe
    /\ FreshRun

-----------------------------------------------------------------------------
(* main, lines 161-174: the output directory and the music directory       *)

DirExists(p) == Canon(p) \in dirs

\* std::fs::create_dir: the parent must be there
CanCreateDir(p) == ~DirExists(p) /\ (Len(p.segs) = 0 \/ DirExists(Parent(p)))

\* lines 161-166: create_dir_all(&output_dir) when it does not exist
CreateOutputDir ==
    /\ pc = "start"
    /\ IF DirExists(output_dir)
       THEN UNCHANGED <<dirs, log>>
       ELSE /\ dirs' = dirs \cup {Canon(output_dir)}
            /\ log' = Append(log, Entry("mkdir", TRUE, -1, output_dir, output_dir))
    /\ pc' = "canonicalize"
    /\ UNCHANGED <<files, music_dir, output_arg, copy, yes, output_dir, abs_music_dir,
                   songs, artists, unknown, walked, loop, input, new_name, counter,
                   run, last, probe>>

\* lines 168-169: the music directory is there
CanonicalizeOk ==
    /\ pc = "canonicalize"
    /\ DirExists(Path(music_dir, <<>>))
    /\ abs_music_dir' = Some(Canon(Path(music_dir, <<>>)))
    /\ pc' = "indexing"
    /\ UNCHANGED <<files, dirs, music_dir, output_arg, copy, yes, output_dir,
                   songs, artists, unknown, walked, loop, input, new_name, counter,
                   run, log, last, probe>>

\* lines 170-173: it is not, exit(1)
CanonicalizeErr ==
    /\ pc = "canonicalize"
    /\ ~DirExists(Path(music_dir, <<>>))
    /\ pc' = "exit1"
    /\ UNCHANGED <<files, dirs, music_dir, output_arg, copy, yes, output_dir, abs_music_dir,
                   songs, artists, unknown, walked, loop, input, new_name, counter,
                   run, log, last, probe>>

-----------------------------------------------------------------------------
(* main, lines 181-252: indexing                                           *)

\* what the walk yields: the regular files below abs_music_dir that are not
\* hidden, in the order the filesystem lists them
ToWalk ==
    {f.path : f \in {g \in files : g.path.root = abs_music_dir[1].root /\ ~Hidden(g.path)}}

\* line 191: extension().unwrap() of a name without extension panics
IndexPanic ==
    /\ pc = "indexing"
    /\ \E p \in ToWalk \ walked :
        /\ extension(p) = NoneV
        /\ pc' = "panicked"
        /\ walked' = walked \cup {p}
    /\ UNCHANGED <<files, dirs, music_dir, output_arg, copy, yes, output_dir, abs_music_dir,
                   songs, artists, unknown, loop, input, new_name, counter,
                   run, log, last, probe>>

\* line 191: not a music file, continue
IndexSkip ==
    /\ pc = "indexing"
    /\ \E p \in ToWalk \ walked :
        /\ extension(p) # NoneV
        /\ ~is_music_extension(extension(p)[1])
        /\ walked' = walked \cup {p}
    /\ UNCHANGED <<files, dirs, music_dir, output_arg, copy, yes, pc, output_dir,
                   abs_music_dir, songs, artists, unknown, loop, input, new_name, counter,
                   run, log, last, probe>>

\* lines 193-251: the song is pushed and put into the hierarchy or into
\* unknown
IndexSong ==
    /\ pc = "indexing"
    /\ \E p \in ToWalk \ walked :
        /\ extension(p) # NoneV
        /\ is_music_extension(extension(p)[1])
        /\ walked' = walked \cup {p}
        /\ LET m == read_from(p)
               song_index == Len(songs)
           IN  /\ songs' = Append(songs, [track |-> m.track, artist |-> m.artist,
                                          title |-> m.title, current_file |-> p])
               /\ IF m.album_artist # <<>>
                  THEN /\ artists' = Group(artists, m.album_artist, m.album, song_index)
                       /\ UNCHANGED unknown
                  ELSE IF m.artist # <<>>
                  THEN /\ artists' = Group(artists, m.artist, m.album, song_index)
                       /\ UNCHANGED unknown
                  ELSE /\ unknown' = Append(unknown, song_index)
                       /\ UNCHANGED artists
    /\ UNCHANGED <<files, dirs, music_dir, output_arg, copy, yes, pc, output_dir,
                   abs_music_dir, loop, input, new_name, counter,
                   run, log, last, probe>>

\* the walk is over: line 254
IndexDone ==
    /\ pc = "indexing"
    /\ ToWalk \subseteq walked
    /\ pc' = "checking"
    /\ loop' = [at |-> "scan", i |-> 1, j |-> 1, k |-> 0]
    /\ UNCHANGED <<files, dirs, music_dir, output_arg, copy, yes, output_dir, abs_music_dir,
                   songs, artists, unknown, walked, input, new_name, counter,
                   run, log, last, probe>>

-----------------------------------------------------------------------------
(* The prompt loops, lines 412-468                                         *)

\* what the operator may type at a menu, at the confirmation and as a name
OptionLines == {"", "0", "1", "2", "3", "4", "x"}

ConfirmLines == {"", "y", "Y", "n", "N", "x"}

NameLines == {<<"a">>, <<"b">>}

\* read_line appends the line to the buffer; the buffer is the sequence of
\* the lines read, each ended by a newline
read_line(buf, line) == Append(buf, line)

\* usize::from_str(input.trim_matches('\n')): the newlines at both ends go,
\* and what is left must be one number
ParseOption(buf) ==
    LET full == {k \in 1..Len(buf) : buf[k] # ""}
    IN  IF Cardinality(full) = 1
           /\ \E d \in 1..Len(Digits) : Digits[d] = buf[CHOOSE k \in full : TRUE]
        THEN Some((CHOOSE d \in 1..Len(Digits) :
                      Digits[d] = buf[CHOOSE k \in full : TRUE]) - 1)
        ELSE NoneV

\* input_options_loop, one turn of its loop: the option it returns, or None
\* when it says "invalid input" and asks again
OptionChosen(buf, n_options) ==
    LET r == ParseOption(buf)
    IN  IF r # NoneV /\ r[1] < n_options THEN r ELSE NoneV

\* input.make_ascii_lowercase()
LowerLines(buf) == [k \in 1..Len(buf) |-> LowerChar(buf[k])]

\* input_confirmation_loop, one turn of its loop: Some(answer), or None when
\* it says "invalid input" and asks again
Confirmed(buf) ==
    IF buf = <<"">> \/ buf = <<"y">> THEN Some(TRUE)
    ELSE IF buf = <<"n">> THEN Some(FALSE)
    ELSE NoneV

-----------------------------------------------------------------------------
(* main, lines 256-291: the check for similarly named artists              *)

Similar(a, b) == a # b /\ eq_ignore_ascii_case(artists[a].name, artists[b].name)

\* the pairs the two loops still have to visit, from (i, j) on
PairsFrom(i, j) ==
    {p \in (1..Len(artists)) \X (1..Len(artists)) :
        /\ (p[1] = i /\ p[2] >= j) \/ p[1] > i
        /\ Similar(p[1], p[2])}

FirstPair(ps) ==
    CHOOSE p \in ps : \A q \in ps : p[1] < q[1] \/ (p[1] = q[1] /\ p[2] <= q[2])

\* line 258: the loops run on to the next pair of similar names, where
\* input_options_loop is called, or to their end
CheckScan ==
    /\ pc = "checking"
    /\ loop.at = "scan"
    /\ IF PairsFrom(loop.i, loop.j) # {}
       THEN LET p == FirstPair(PairsFrom(loop.i, loop.j))
            IN  /\ loop' = [at |-> "Prompt", i |-> p[1], j |-> p[2], k |-> 0]
                /\ input' = <<>>
                /\ UNCHANGED pc
       ELSE /\ pc' = IF yes THEN "writing" ELSE "confirm"
            /\ loop' = IF yes THEN [at |-> "artist", i |-> 1, j |-> 0, k |-> 0] ELSE NoLoop
            /\ input' = <<>>
    /\ last' = NoChoice
    /\ new_name' = <<>>
    /\ UNCHANGED <<files, dirs, music_dir, output_arg, copy, yes, output_dir, abs_music_dir,
                   songs, artists, unknown, walked, counter,
                   run, log, probe>>

\* what the artists are after the choice at the first menu: lines 268-270
\* and 287 print and go on, the hierarchy is not touched
AfterPrompt(ars, i, j, choice) == ars

\* lines 260-288: the operator answers the menu of four options
ReadPrompt ==
    /\ pc = "checking"
    /\ loop.at = "Prompt"
    /\ Len(input) < MaxLines
    /\ \E line \in OptionLines :
        LET buf == read_line(input, line)
            r == OptionChosen(buf, 4)
        IN  IF r = NoneV
            THEN /\ input' = buf
                 /\ UNCHANGED <<loop, last, artists>>
            ELSE /\ last' = [at |-> "Prompt", choice |-> r[1]]
                 /\ artists' = AfterPrompt(artists, loop.i, loop.j, r[1])
                 /\ input' = <<>>
                 /\ loop' = IF r[1] = 3
                            THEN [loop EXCEPT !.at = "NameEntry"]
                            ELSE [loop EXCEPT !.at = "scan", !.j = loop.j + 1]
    /\ UNCHANGED <<files, dirs, music_dir, output_arg, copy, yes, pc, output_dir,
                   abs_music_dir, songs, unknown, walked, new_name, counter,
                   run, log, probe>>

\* line 272: input_loop with a predicate that is always true returns the
\* first line read, newline included
ReadName ==
    /\ pc = "checking"
    /\ loop.at = "NameEntry"
    /\ \E line \in NameLines :
        new_name' = line \o <<"\n">>
    /\ loop' = [loop EXCEPT !.at = "NameMenu"]
    /\ input' = <<>>
    /\ UNCHANGED <<files, dirs, music_dir, output_arg, copy, yes, pc, output_dir,
                   abs_music_dir, songs, artists, unknown, walked, counter,
                   run, log, last, probe>>

\* where the inner loop of lines 271-286 goes on a choice: only the third
\* option breaks out of it, "ok" and "reenter name" run it again
AfterNameMenu(l, choice) ==
    IF choice = 2 THEN [l EXCEPT !.at = "scan", !.j = l.j + 1]
    ELSE [l EXCEPT !.at = "NameEntry"]

\* lines 275-285: the operator answers the menu ok / reenter name / dismiss
ReadNameMenu ==
    /\ pc = "checking"
    /\ loop.at = "NameMenu"
    /\ Len(input) < MaxLines
    /\ \E line \in OptionLines :
        LET buf == read_line(input, line)
            r == OptionChosen(buf, 3)
        IN  IF r = NoneV
            THEN /\ input' = buf
                 /\ UNCHANGED <<loop, last>>
            ELSE /\ last' = [at |-> "NameMenu", choice |-> r[1]]
                 /\ input' = <<>>
                 /\ loop' = AfterNameMenu(loop, r[1])
    /\ UNCHANGED <<files, dirs, music_dir, output_arg, copy, yes, pc, output_dir,
                   abs_music_dir, songs, artists, unknown, walked, new_name, counter,
                   run, log, probe>>

-----------------------------------------------------------------------------
(* main, lines 293-304: the confirmation                                   *)

\* the operator answers the confirmation: yes goes on to the writing, no
\* is exit(1), anything else is asked again
ReadConfirm ==
    /\ pc = "confirm"
    /\ Len(input) < MaxLines
    /\ \E line \in ConfirmLines :
        LET buf == LowerLines(read_line(input, line))
            r == Confirmed(buf)
        IN  IF r = NoneV
            THEN /\ input' = buf
                 /\ UNCHANGED <<pc, loop, last>>
            ELSE /\ input' = <<>>
                 /\ last' = [at |-> "confirm", choice |-> IF r[1] THEN 1 ELSE 0]
                 /\ pc' = IF r[1] THEN "writing" ELSE "exit1"
                 /\ loop' = IF r[1] THEN [at |-> "artist", i |-> 1, j |-> 0, k |-> 0]
                            ELSE loop
    /\ UNCHANGED <<files, dirs, music_dir, output_arg, copy, yes, output_dir, abs_music_dir,
                   songs, artists, unknown, walked, new_name, counter,
                   run, log, probe>>

-----------------------------------------------------------------------------
(* mv_or_cp, lines 394-410                                                 *)

\* which branch mv_or_cp takes
Branch(old, new) == IF old = new THEN "skip" ELSE IF copy THEN "copy" ELSE "move"

\* std::fs::copy and std::fs::rename can succeed only when the source is
\* there and the destination's directory is
CanTransfer(old, new) ==
    /\ FileAt(old) # {}
    /\ DirExists(Parent(new))
    /\ ~DirExists(new)

Src(old) == CHOOSE f \in FileAt(old) : TRUE

\* a slip: a move that failed has removed the source all the same
FilesAfterLosing(old, new, ok) ==
    IF Branch(old, new) = "skip" THEN files
    ELSE IF ~ok THEN (IF Branch(old, new) = "move" THEN files \ FileAt(old) ELSE files)
    ELSE IF Branch(old, new) = "copy"
    THEN (files \ FileAt(new)) \cup {[path |-> Canon(new), id |-> Src(old).id]}
    ELSE ((files \ FileAt(old)) \ FileAt(new))
            \cup {[path |-> Canon(new), id |-> Src(old).id]}

\* the files after mv_or_cp(old, new): a skip and a failed call change
\* nothing; a copy puts the source's content at new, and a copy of a file
\* onto itself truncates it; a rename takes the source to new, replacing
\* what was there, and a rename of a file onto itself changes nothing
FilesAfter(old, new, ok) ==
    IF Branch(old, new) = "skip" \/ ~ok THEN files
    ELSE IF Branch(old, new) = "copy"
    THEN (files \ FileAt(new))
            \cup {[path |-> Canon(new),
                   id |-> IF Canon(old) = Canon(new) THEN EmptyId ELSE Src(old).id]}
    ELSE ((files \ FileAt(old)) \ FileAt(new))
            \cup {[path |-> Canon(new), id |-> Src(old).id]}

\* mv_or_cp(&counter, old, new, copy, verbose) for song si; ok is whether
\* the copy or the rename succeeds
mv_or_cp(si, old, new, ok) ==
    /\ ok => (Branch(old, new) = "skip" \/ CanTransfer(old, new))
    /\ ~ok => Branch(old, new) # "skip"
    /\ files' = FilesAfter(old, new, ok)
    /\ log' = Append(log, Entry(Branch(old, new), ok, si, old, new))

\* if !dir.exists() { create_dir(&dir) }, lines 314-318, 322-326, 365-369
EnsureDir(d) ==
    IF DirExists(d)
    THEN UNCHANGED <<dirs, log>>
    ELSE /\ dirs' = IF CanCreateDir(d) THEN dirs \cup {Canon(d)} ELSE dirs
         /\ log' = Append(log, Entry("mkdir", CanCreateDir(d), -1, d, d))

-----------------------------------------------------------------------------
(* main, lines 310-380: writing                                            *)

\* line 312: the next artist, its directory made when it is missing; after
\* the last artist, line 363
WriteArtist ==
    /\ pc = "writing"
    /\ loop.at = "artist"
    /\ IF loop.i <= Len(artists)
       THEN /\ EnsureDir(ArDir(output_dir, artists[loop.i].name))
            /\ loop' = [loop EXCEPT !.at = "album", !.j = 1]
       ELSE /\ loop' = [at |-> "unknown", i |-> 0, j |-> 0, k |-> 0]
            /\ UNCHANGED <<dirs, log>>
    /\ UNCHANGED <<files, music_dir, output_arg, copy, yes, pc, output_dir, abs_music_dir,
                   songs, artists, unknown, walked, input, new_name, counter,
                   run, last, probe>>

\* line 320: the next album of the artist, its directory made when it is
\* missing
WriteAlbum ==
    /\ pc = "writing"
    /\ loop.at = "album"
    /\ IF loop.j <= Len(artists[loop.i].albums)
       THEN /\ EnsureDir(AlDir(output_dir, artists[loop.i].name,
                               artists[loop.i].albums[loop.j].name))
            /\ loop' = [loop EXCEPT !.at = "song", !.k = 1]
       ELSE /\ loop' = [at |-> "artist", i |-> loop.i + 1, j |-> 0, k |-> 0]
            /\ UNCHANGED <<dirs, log>>
    /\ UNCHANGED <<files, music_dir, output_arg, copy, yes, pc, output_dir, abs_music_dir,
                   songs, artists, unknown, walked, input, new_name, counter,
                   run, last, probe>>

\* lines 328-359: the next song of the album is moved or copied
WriteSong ==
    /\ pc = "writing"
    /\ loop.at = "song"
    /\ LET al == artists[loop.i].albums[loop.j]
       IN  IF loop.k <= Len(al.songs)
           THEN LET si == al.songs[loop.k]
                    song == SongAt(si)
                    new_file == AlbumNewFile(output_dir, artists[loop.i].name, al.name, song)
                IN  /\ \E ok \in BOOLEAN : mv_or_cp(si, song.current_file, new_file, ok)
                    /\ counter' = counter + 1
                    /\ loop' = [loop EXCEPT !.k = loop.k + 1]
           ELSE /\ loop' = [loop EXCEPT !.at = "album", !.j = loop.j + 1, !.k = 0]
                /\ UNCHANGED <<files, log, counter>>
    /\ UNCHANGED <<dirs, music_dir, output_arg, copy, yes, pc, output_dir, abs_music_dir,
                   songs, artists, unknown, walked, input, new_name,
                   run, last, probe>>

\* lines 363-369: the unknown directory, when there are unknown songs;
\* line 380 when there are none
WriteUnknown ==
    /\ pc = "writing"
    /\ loop.at = "unknown"
    /\ IF unknown # <<>>
       THEN /\ EnsureDir(join(output_dir, UnknownName))
            /\ loop' = [loop EXCEPT !.at = "usong", !.k = 1]
            /\ UNCHANGED pc
       ELSE /\ pc' = "done"
            /\ loop' = NoLoop
            /\ UNCHANGED <<dirs, log>>
    /\ UNCHANGED <<files, music_dir, output_arg, copy, yes, output_dir, abs_music_dir,
                   songs, artists, unknown, walked, input, new_name, counter,
                   run, last, probe>>

\* lines 370-376: the next unknown song is moved or copied; line 380 after
\* the last
WriteUnknownSong ==
    /\ pc = "writing"
    /\ loop.at = "usong"
    /\ IF loop.k <= Len(unknown)
       THEN LET si == unknown[loop.k]
                song == SongAt(si)
            IN  /\ \E ok \in BOOLEAN :
                    mv_or_cp(si, song.current_file, UnknownNewFile(output_dir, song), ok)
                /\ counter' = counter + 1
                /\ loop' = [loop EXCEPT !.k = loop.k + 1]
                /\ UNCHANGED pc
       ELSE /\ pc' = "done"
            /\ loop' = NoLoop
            /\ UNCHANGED <<files, log, counter>>
    /\ UNCHANGED <<dirs, music_dir, output_arg, copy, yes, output_dir, abs_music_dir,
                   songs, artists, unknown, walked, input, new_name,
                   run, last, probe>>

\* the operator runs the program again with the same arguments, after a
\* run in which nothing failed
RunAgain ==
    /\ pc = "done"
    /\ run = 1
    /\ \A k \in 1..Len(log) : log[k].ok
    /\ run' = 2
    /\ pc' = "start"
    /\ abs_music_dir' = NoneV
    /\ songs' = <<>>
    /\ artists' = <<>>
    /\ unknown' = <<>>
    /\ walked' = {}
    /\ loop' = NoLoop
    /\ input' = <<>>
    /\ new_name' = <<>>
    /\ counter' = 1
    /\ log' = <<>>
    /\ last' = NoChoice
    /\ UNCHANGED <<files, dirs, music_dir, output_arg, copy, yes, output_dir, probe>>

(* The helpers applied on their own                                        *)

\* main is not running
Idle ==
    /\ files = {}
    /\ dirs = {}
    /\ music_dir = LibRoot
    /\ output_arg = None
    /\ copy = FALSE
    /\ yes = FALSE
    /\ run = 1
    /\ FreshRun

\* the nine characters the sanitizer is to remove, a letter and the dot
SanAlphabet == {"<", ">", ":", "\"", "/", "\\", "|", "?", "*", "a", "."}

Texts(alphabet, n) == UNION {[1..k -> alphabet] : k \in 0..n}

SanInit ==
    /\ Idle
    /\ probe \in {[fn |-> "valid_os_string", arg |-> s, res |-> NoneV] :
                    s \in Texts(SanAlphabet, MaxStrLen)}

SanApply ==
    /\ probe.fn = "valid_os_string"
    /\ probe.res = NoneV
    /\ probe' = [probe EXCEPT !.res = Some(valid_os_string(probe.arg))]
    /\ UNCHANGED mainVars

SanNext == SanApply

SanSpec == SanInit /\ [][SanNext]_vars

\* artists, titles, album names, track numbers and extensions for the
\* destination of one song
PlanArtists == {<<"X">>, <<"a","/","b">>, <<".","x">>, <<"/">>}

PlanTitles == {<<>>, <<"t">>, <<"T">>, <<"t","?">>}

PlanAlbums ==
    {<<>>, <<"l">>, <<"l",".">>, <<"?">>, SingleSuffix,
     <<"t">> \o SingleSuffix,
     <<"T"," ","-"," ","S","i","n","g","l","e">>,
     <<"t"," ","-"," ","S","I","N","G","L","E">>,
     <<"t","?">> \o SingleSuffix,
     <<"t">> \o SingleSuffix \o <<"s">>,
     <<"t"," ","-","s","i","n","g","l","e">>}

PlanTracks == {0, 3, 12, 100}

PlanExts == {<<"m","p","3">>, <<"m","4","a">>}

PlanInit ==
    /\ Idle
    /\ probe \in {[fn |-> "new_file", X |-> x, T |-> t, A |-> a, track |-> n,
                   ext |-> e, res |-> NoneV] :
                    x \in PlanArtists, t \in PlanTitles, a \in PlanAlbums,
                    n \in PlanTracks, e \in PlanExts}

\* the song of the probe, as the indexer would have pushed it
ProbeSong ==
    [track |-> probe.track, artist |-> probe.X, title |-> probe.T,
     current_file |-> Path(LibRoot, << <<"f",".">> \o probe.ext >>)]

PlanApply ==
    /\ probe.fn = "new_file"
    /\ probe.res = NoneV
    /\ probe' = [probe EXCEPT
                    !.res = Some(AlbumNewFile(Path(OutRoot, <<>>), probe.X, probe.A, ProbeSong))]
    /\ UNCHANGED mainVars

PlanNext == PlanApply

PlanSpec == PlanInit /\ [][PlanNext]_vars

-----------------------------------------------------------------------------
Write == WriteArtist \/ WriteAlbum \/ WriteSong \/ WriteUnknown \/ WriteUnknownSong

Next ==
    \/ CreateOutputDir
    \/ CanonicalizeOk
    \/ CanonicalizeErr
    \/ IndexPanic
    \/ IndexSkip
    \/ IndexSong
    \/ IndexDone
    \/ CheckScan
    \/ ReadPrompt
    \/ ReadName
    \/ ReadNameMenu
    \/ ReadConfirm
    \/ Write
    \/ RunAgain

Spec == Init /\ [][Next]_vars

-----------------------------------------------------------------------------
(* The properties                                                          *)

RECURSIVE AlbumRefs(_)
AlbumRefs(albums) ==
    IF albums = <<>> THEN <<>> ELSE Head(albums).songs \o AlbumRefs(Tail(albums))

RECURSIVE ArtistRefs(_)
ArtistRefs(ars) ==
    IF ars = <<>> THEN <<>> ELSE AlbumRefs(Head(ars).albums) \o ArtistRefs(Tail(ars))

\* every entry of every song list of the hierarchy, and of unknown
AllRefs == ArtistRefs(artists) \o unknown

\* C1: at every point of a run, from the first indexed file to the end of
\* the writing, every song index 0..songs.len()-1 is listed exactly once in
\* the albums of all artists and the unknown bucket taken together: the
\* lists have as many entries as there are songs, and every index is one.
C1_Partition ==
    /\ Len(AllRefs) = Len(songs)
    /\ {AllRefs[k] : k \in 1..Len(AllRefs)} = 0..(Len(songs) - 1)

\* a run that is writing with songs both under an artist and in unknown
C1_Witness ==
    /\ pc = "writing"
    /\ Len(songs) >= 2
    /\ artists # <<>>
    /\ unknown # <<>>

\* the calls of mv_or_cp that copied or moved a file
Placed == {k \in 1..Len(log) : log[k].kind \in {"copy", "move"} /\ log[k].ok}

\* C2: once the library is indexed no two songs have the same destination,
\* and no transfer of a run writes where an earlier transfer of the run
\* has put a file.
C2_CollisionFree ==
    /\ pc \in {"checking", "confirm", "writing", "done"} =>
            \A e1, e2 \in Plan : e1.si # e2.si => e1.new # e2.new
    /\ \A k1, k2 \in Placed : k1 # k2 => Canon(log[k1].new) # Canon(log[k2].new)

\* the songs of the albums called n of artist ar, in order
RECURSIVE SongsNamed(_, _)
SongsNamed(albums, n) ==
    IF albums = <<>> THEN <<>>
    ELSE (IF Head(albums).name = n THEN Head(albums).songs ELSE <<>>)
            \o SongsNamed(Tail(albums), n)

AlbumNames(ar) == {ar.albums[l].name : l \in 1..Len(ar.albums)}

\* ars holds one artist called name whose albums are the union of those of
\* ar1 and ar2, the song lists of albums of one name put together, and ar1
\* and ar2 are not both there any more
Merged(ars, ar1, ar2, name) ==
    /\ Cardinality({a \in 1..Len(ars) : ars[a].name = name}) = 1
    /\ LET m == ars[CHOOSE a \in 1..Len(ars) : ars[a].name = name]
       IN  /\ AlbumNames(m) = AlbumNames(ar1) \cup AlbumNames(ar2)
           /\ \A l \in 1..Len(m.albums) :
                /\ m.albums[l].songs =
                        SongsNamed(ar1.albums, m.albums[l].name)
                            \o SongsNamed(ar2.albums, m.albums[l].name)
                /\ \A l2 \in 1..Len(m.albums) :
                        m.albums[l2].name = m.albums[l].name => l2 = l
    /\ ~(\E a, b \in 1..Len(ars) : a # b /\ ars[a] = ar1 /\ ars[b] = ar2)

\* C3: the step in which the operator chooses "merge using first" or
\* "merge using second" for a pair leaves one artist under the chosen name
\* with the albums of both, and not both of the original artists.
C3_MergeStep ==
    /\ pc = "checking"
    /\ loop.at = "Prompt"
    /\ input' = <<>>
    /\ last'.at = "Prompt"
    /\ last'.choice \in {1, 2}
    => Merged(artists', artists[loop.i], artists[loop.j],
              IF last'.choice = 1 THEN artists[loop.i].name ELSE artists[loop.j].name)

C3_Merge == [][C3_MergeStep]_vars

\* the calls of mv_or_cp of this run, as positions of log
Transfers == {k \in 1..Len(log) : log[k].kind \in {"skip", "copy", "move"}}

\* C4: in a second run with the same arguments, in move or copy mode,
\* mv_or_cp takes the skip branch for every song: no file is moved or
\* copied.
C4_SecondRunSkips ==
    run = 2 => \A k \in Transfers : log[k].kind = "skip"

\* C5: without assume-yes, as long as the operator has not answered the
\* confirmation with yes, the run has created no directory and moved or
\* copied no file; after the answer 'n' it has exited with nothing changed.
C5_ConfirmFirst ==
    (~yes /\ pc \notin {"writing", "done"}) => log = <<>>

\* the nine characters < > : " / \ | ? *
Forbidden == {"<", ">", ":", "\"", "/", "\\", "|", "?", "*"}

RECURSIVE Without(_, _)
Without(s, cs) ==
    IF s = <<>> THEN <<>>
    ELSE (IF Head(s) \in cs THEN <<>> ELSE <<Head(s)>>) \o Without(Tail(s), cs)

\* C6: the result of valid_os_string holds none of the nine characters
\* < > : " / \ | ? * and the characters that remain are in the order they
\* had (a dot at either end being written as an underscore).
C6_NoneOfNine ==
    probe.fn = "valid_os_string" /\ probe.res # NoneV =>
        LET out == probe.res[1]
            kept == Without(probe.arg, Forbidden)
        IN  /\ \A k \in 1..Len(out) : out[k] \notin Forbidden
            /\ Len(out) = Len(kept)
            /\ \A k \in 1..Len(out) :
                    out[k] = kept[k] \/ (out[k] = "_" /\ kept[k] = "." /\ k \in {1, Len(out)})

\* C7: a file that is not hidden and whose extension is not one of the five,
\* or that has no extension, never stops the scan and adds no song: the
\* songs are the walked files with one of the five extensions.
C7_SkipsNotAborts ==
    /\ pc # "panicked"
    /\ pc = "indexing" =>
            Len(songs) = Cardinality({p \in walked :
                            extension(p) # NoneV /\ is_music_extension(extension(p)[1])})

\* a step in which mv_or_cp tried to copy or move and failed
FailedTransferStep ==
    /\ Len(log') = Len(log) + 1
    /\ log'[Len(log')].kind \in {"copy", "move"}
    /\ ~log'[Len(log')].ok

\* where the writing loops are, as a number that grows with every turn
\* of a loop: the artist loop before the unknown loop, and in each the
\* outer position before the inner one
Turn ==
    LET n == Len(songs) + 2
    IN  IF pc = "done" THEN 2 * n * n * n
        ELSE IF loop.at \in {"unknown", "usong"} THEN n * n * n + loop.k
        ELSE (loop.i * n + loop.j) * n + loop.k

\* a step of the writing goes on in the writing or ends it, and takes the
\* loops forward
WriteAdvances ==
    pc = "writing" =>
        /\ pc' \in {"writing", "done"}
        /\ LET n == Len(songs) + 2
           IN  /\ loop'.i < n /\ loop'.j < n /\ loop'.k < n
               /\ (IF pc' = "done" THEN 2 * n * n * n
                   ELSE IF loop'.at \in {"unknown", "usong"} THEN n * n * n + loop'.k
                   ELSE (loop'.i * n + loop'.j) * n + loop'.k) > Turn

\* C8: a copy or move that fails leaves every file where it was and the run
\* goes on writing, and a file stays at the song's path to the end of the
\* run; the writing can always take its next step and every step takes its
\* loops forward, so it gets done; and a run that is done has called
\* mv_or_cp exactly once for every indexed song.
C8_FailureNotFatal ==
    /\ [][FailedTransferStep => (files' = files /\ pc' = "writing")]_vars
    /\ [][WriteAdvances]_vars
    /\ [](pc = "writing" => ENABLED Write)
    /\ [](\A k \in Transfers : ~log[k].ok => FileAt(log[k].old) # {})
    /\ [](pc = "done" =>
            /\ Cardinality(Transfers) = Len(songs)
            /\ {log[k].si : k \in Transfers} = 0..(Len(songs) - 1))

\* a run that is done after a transfer failed and a later one succeeded
C8_Witness ==
    /\ pc = "done"
    /\ \E k1, k2 \in Transfers :
        /\ k1 < k2
        /\ ~log[k1].ok
        /\ log[k2].ok
        /\ log[k2].kind # "skip"
        /\ FileAt(log[k1].old) # {}

\* the path root/segs, components that are empty left out
PathOf(root, segs) == Path(root, SelectSeq(segs, LAMBDA x : x # <<>>))

\* the track number in two digits at least
TwoDigits(n) == IF n < 10 THEN <<"0", Digits[n + 1]>> ELSE Dec(n)

\* C9: for artist X, title T, album A: the destination is
\* output/san(X)/"san(X) - san(T).ext" exactly when A is empty or A is, in
\* any letter case, T followed by " - single"; otherwise it is
\* output/san(X)/san(A)/"NN - san(X) - san(T).ext", NN the track number in
\* two digits, 00 when there is none.
C9_SingleOrAlbum ==
    probe.fn = "new_file" /\ probe.res # NoneV =>
        LET X == valid_os_string(probe.X)
            T == valid_os_string(probe.T)
            A == valid_os_string(probe.A)
            base == X \o <<" ","-"," ">> \o T \o <<".">> \o probe.ext
            asSingle == PathOf(OutRoot, <<X, base>>)
            asAlbum == PathOf(OutRoot, <<X, A, TwoDigits(probe.track) \o <<" ","-"," ">> \o base>>)
            single == \/ probe.A = <<>>
                      \/ eq_ignore_ascii_case(probe.A, probe.T \o SingleSuffix)
        IN  /\ (probe.res[1] = asSingle) <=> single
            /\ ~single => probe.res[1] = asAlbum

\* the destination of a song whose album is its title and " - Single" in
\* capitals, and of one in an album with a track number of one digit
C9_Witness ==
    /\ probe.fn = "new_file"
    /\ probe.res # NoneV
    /\ \/ /\ probe.A = <<"T"," ","-"," ","S","i","n","g","l","e">>
          /\ probe.T = <<"t">>
          /\ Len(probe.res[1].segs) = 2
       \/ /\ probe.A = <<"l">>
          /\ probe.track = 3
          /\ Len(probe.res[1].segs) = 3

\* a step in which the operator's choice at the menu ok / reenter name /
\* dismiss is accepted
NameMenuStep(choice) ==
    /\ pc = "checking"
    /\ loop.at = "NameMenu"
    /\ input' = <<>>
    /\ last' = [at |-> "NameMenu", choice |-> choice]

\* the pair (i, j) is dealt with: the loops go on behind it
PairEnded == loop'.at = "scan" /\ loop'.i = loop.i /\ loop'.j = loop.j + 1

\* C10: at the menu after a name was entered, "ok" gives both artists of
\* the pair the entered name and ends the pair, "reenter name" asks for
\* the name again, "dismiss" ends the pair with the hierarchy as it was.
C10_NameMenuStep ==
    /\ NameMenuStep(0) =>
            /\ PairEnded
            /\ artists'[loop.i].name \o <<"\n">> = new_name
            /\ artists'[loop.j].name \o <<"\n">> = new_name
    /\ NameMenuStep(1) => (loop'.at = "NameEntry" /\ artists' = artists)
    /\ NameMenuStep(2) => (PairEnded /\ artists' = artists)

C10_NameMenu == [][C10_NameMenuStep]_vars

\* a step in which a prompt loop read a line, said "invalid input" and
\* asks again: the line stays in the buffer
Rejected == Len(input') = Len(input) + 1

\* the line read in such a step
LineRead == input'[Len(input')]

\* C11: in input_options_loop and input_confirmation_loop a line that is
\* valid on its own (the number of an option; empty, y or n) is accepted
\* whatever invalid lines were read before it: a line that is rejected is
\* never one that is valid on its own.
C11_RecoverStep ==
    /\ (pc = "checking" /\ loop.at = "Prompt" /\ Rejected)
            => OptionChosen(<<LineRead>>, 4) = NoneV
    /\ (pc = "checking" /\ loop.at = "NameMenu" /\ Rejected)
            => OptionChosen(<<LineRead>>, 3) = NoneV
    /\ (pc = "confirm" /\ Rejected)
            => Confirmed(LowerLines(<<LineRead>>)) = NoneV

C11_Recover == [][C11_RecoverStep]_vars

====
